---- MODULE Spec2Model ----
(***************************************************************************)
(* A model of the API testing framework: Config (config.py), APIClient and *)
(* APIResponseWrapper (api_client.py).                                     *)
(*                                                                         *)
(* Text on which the code works character by character (URLs, endpoints)   *)
(* is a sequence of one-character strings.  Header names are strings (the  *)
(* keys of a Python dict, compared exactly); header values and error       *)
(* messages are sequences of the fragments an f-string concatenates.       *)
(* A Python value that may be None is a record [none, v].                  *)
(***************************************************************************)
EXTENDS Integers, Sequences, FiniteSets, TLC

VARIABLES
    env,              \* os.environ: the API_KEY variable
    fs,               \* the config file on disk, as yaml.safe_load sees it
    phase,            \* "new", "constructed" or "failed" (the constructor raised)
    args,             \* the arguments APIClient(...) was called with
    config,           \* APIClient.config, a Config object
    base_url,         \* APIClient.base_url
    default_headers,  \* APIClient.default_headers
    _playwright,      \* APIClient._playwright  (0 is None, else a driver handle)
    _request_context, \* APIClient._request_context (0 is None, else a context handle)
    started,          \* number of drivers the transport has started so far
    drivers,          \* the transport's running drivers
    contexts,         \* the transport's undisposed request contexts
    response,         \* the raw response an APIResponseWrapper wraps
    last              \* what the last call did: its arguments, transport calls, outcome

vars == <<env, fs, phase, args, config, base_url, default_headers, _playwright,
          _request_context, started, drivers, contexts, response, last>>

clientVars == <<phase, args, config, base_url, default_headers>>
sessionVars == <<_playwright, _request_context, started, drivers, contexts>>
worldVars == <<env, fs>>

-----------------------------------------------------------------------------
(* Bounds of the model *)

MaxSlashes == 2      \* leading/trailing slashes put on an endpoint or base URL
MaxStarts == 2       \* drivers a behaviour may start
MaxStatus == 620     \* HTTP statuses range over 0..MaxStatus

-----------------------------------------------------------------------------
(* Python strings *)

Slash == "/"

RECURSIVE rstrip(_, _)
rstrip(s, c) ==
    IF s # <<>> /\ s[Len(s)] = c THEN rstrip(SubSeq(s, 1, Len(s) - 1), c) ELSE s

RECURSIVE lstrip(_, _)
lstrip(s, c) ==
    IF s # <<>> /\ s[1] = c THEN lstrip(SubSeq(s, 2, Len(s)), c) ELSE s

startswith(s, prefix) ==
    Len(s) >= Len(prefix) /\ SubSeq(s, 1, Len(prefix)) = prefix

RECURSIVE Slashes(_)
Slashes(n) == IF n = 0 THEN <<>> ELSE <<Slash>> \o Slashes(n - 1)

(* Python's None-or-value *)
None(dflt) == [none |-> TRUE, v |-> dflt]
Some(x) == [none |-> FALSE, v |-> x]

-----------------------------------------------------------------------------
(* Python dicts with string keys: functions.  d[k] = v and dict.update. *)

EmptyDict == [k \in {} |-> <<>>]

SetItem(d, k, v) == [x \in DOMAIN d \cup {k} |-> IF x = k THEN v ELSE d[x]]

RECURSIVE UpdateKeys(_, _, _)
UpdateKeys(d, other, ks) ==
    IF ks = {} THEN d
    ELSE LET k == CHOOSE x \in ks : TRUE
         IN  UpdateKeys(SetItem(d, k, other[k]), other, ks \ {k})

update(d, other) == UpdateKeys(d, other, DOMAIN other)

setdefault(d, k, v) == IF k \in DOMAIN d THEN d ELSE SetItem(d, k, v)

-----------------------------------------------------------------------------
(* config.py *)

DefaultTimeout == 30
DefaultRetryCount == 3

UserAgent == "User-Agent"
Authorization == "Authorization"
ContentType == "Content-Type"

(* What yaml.safe_load(file) makes of a file: it raises YAMLError, or returns  *)
(* a value of some Python type.  Of a dict, keys are the top-level keys the    *)
(* file has and the other fields their values.                                 *)
Loaded(raises, type, truthy, keys, url, headers) ==
    [raises |-> raises, type |-> type, truthy |-> truthy, keys |-> keys,
     base_url |-> url, timeout |-> 10, retry_count |-> 5, log_level |-> "DEBUG",
     default_headers |-> headers]

MissingFile == [exists |-> FALSE, loaded |-> Loaded(FALSE, "NoneType", FALSE, {}, <<>>, None(EmptyDict))]
File(loaded) == [exists |-> TRUE, loaded |-> loaded]

\* data.get(key, default) on a dict
DictGet(data, key, default) == IF key \in data.keys THEN data[key] ELSE default

\* The outcome of a call: the error it raised ("" when it returned), the
\* error's message and the value it returned.
Returned(value) == [error |-> "", message |-> <<>>, value |-> value]
Raised(error, message, value) == [error |-> error, message |-> message, value |-> value]

\* Config._load_from_yaml(config_file), self being cfg
_load_from_yaml(cfg, config_file, file) ==
    LET data == file.loaded IN
    IF ~file.exists
    THEN Raised("ValueError", <<"Config file not found: ", config_file>>, cfg)
    ELSE IF data.raises
    THEN Raised("ValueError", <<"Invalid YAML in config file ", config_file, ": ">>, cfg)
    ELSE IF ~data.truthy
    THEN Returned(cfg)
    ELSE IF data.type # "dict"
    THEN \* data.get: a list, str or int has no attribute 'get'
         Raised("AttributeError", <<"'", data.type, "' object has no attribute 'get'">>, cfg)
    ELSE LET loaded == [cfg EXCEPT
                 !.base_url = DictGet(data, "base_url", cfg.base_url),
                 !.timeout = DictGet(data, "timeout", cfg.timeout),
                 !.retry_count = DictGet(data, "retry_count", cfg.retry_count),
                 !.log_level = DictGet(data, "log_level", cfg.log_level)]
         IN  IF "default_headers" \notin data.keys
             THEN Returned(loaded)
             ELSE IF data.default_headers.none
             THEN \* dict.update(None)
                  Raised("TypeError", <<"'NoneType' object is not iterable">>, loaded)
             ELSE Returned([loaded EXCEPT !.default_headers =
                               update(cfg.default_headers, data.default_headers.v)])

\* Config._load_from_environment(), self being cfg
Bearer(key) == <<"Bearer ", key>>

\* (a variant that leaves an Authorization header of the file in place)
_load_from_environment_KeepsFile(cfg, environ) ==
    IF ~environ.API_KEY.none /\ environ.API_KEY.v # ""
          /\ Authorization \notin DOMAIN cfg.default_headers
    THEN [cfg EXCEPT !.default_headers =
              SetItem(cfg.default_headers, Authorization, Bearer(environ.API_KEY.v))]
    ELSE cfg

_load_from_environment(cfg, environ) ==
    IF ~environ.API_KEY.none /\ environ.API_KEY.v # ""
    THEN [cfg EXCEPT !.default_headers =
              SetItem(cfg.default_headers, Authorization, Bearer(environ.API_KEY.v))]
    ELSE cfg

\* Config.__init__(config_file)
ConfigDefaults ==
    [base_url |-> <<>>, timeout |-> DefaultTimeout,
     default_headers |-> SetItem(EmptyDict, UserAgent, <<"Playwright-Test-Framework/1.0">>),
     retry_count |-> DefaultRetryCount, log_level |-> "INFO"]

Config(config_file, file, environ) ==
    IF ~config_file.none /\ config_file.v # ""
    THEN LET r == _load_from_yaml(ConfigDefaults, config_file.v, file)
         IN  IF r.error # "" THEN r
             ELSE Returned(_load_from_environment(r.value, environ))
    ELSE Returned(_load_from_environment(ConfigDefaults, environ))

-----------------------------------------------------------------------------
(* api_client.py: APIClient *)

LoggingLevels == {"DEBUG", "INFO", "WARNING", "ERROR", "CRITICAL"}

\* Python truthiness of an optional dict
TruthyDict(h) == ~h.none /\ DOMAIN h.v # {}

\* APIClient.__init__(base_url, headers, config_file): the fields of the new
\* client, or the error the constructor raised.
\* (a variant that prefers the loaded configuration)
ResolveBaseUrl_ConfigFirst(ctor_base_url, cfg) ==
    rstrip(IF cfg.base_url # <<>> THEN cfg.base_url ELSE ctor_base_url, Slash)

ResolveBaseUrl(ctor_base_url, cfg) ==
    rstrip(IF ctor_base_url # <<>> THEN ctor_base_url ELSE cfg.base_url, Slash)

\* self.default_headers is a copy of the Config's dict (.copy()), so what
\* the constructor's update writes never reaches the Config's own dict.
\* (a variant without the copy: both names are one dict)
ConfigHeadersAfterInit_Shared(cfg_headers, written) == written

ConfigHeadersAfterInit(cfg_headers, written) == cfg_headers

ResolveHeaders(ctor_headers, cfg) ==
    IF TruthyDict(ctor_headers)
    THEN update(cfg.default_headers, ctor_headers.v)
    ELSE cfg.default_headers

APIClientInit(ctor_base_url, ctor_headers, config_file, file, environ) ==
    LET c == Config(config_file, file, environ) IN
    IF c.error # "" THEN c
    ELSE IF c.value.log_level \notin LoggingLevels
    THEN Raised("AttributeError", <<"module 'logging' has no attribute '", c.value.log_level, "'">>, c.value)
    ELSE Returned([config |-> [c.value EXCEPT !.default_headers =
                                  ConfigHeadersAfterInit(@, ResolveHeaders(ctor_headers, c.value))],
                   base_url |-> ResolveBaseUrl(ctor_base_url, c.value),
                   default_headers |-> ResolveHeaders(ctor_headers, c.value)])

\* APIClient._build_url(endpoint), self.base_url being base
http == <<"h", "t", "t", "p">>

_build_url(base, endpoint) ==
    IF startswith(endpoint, http)
    THEN endpoint
    ELSE LET stripped == lstrip(endpoint, Slash)
         IN  IF base # <<>> THEN base \o <<Slash>> \o stripped ELSE stripped

\* APIClient._merge_headers(headers), self.default_headers being defaults
\* merged is a copy of self.default_headers (.copy()), so what update and,
\* in post and put, setdefault write into it never reaches
\* self.default_headers: the defaults after a call that wrote `written`.
\* (a variant without the copy: merged is self.default_headers itself)
DefaultsAfterMerge_Shared(defaults, written) == written

DefaultsAfterMerge(defaults, written) == defaults

\* (a variant in which the defaults win)
_merge_headers_DefaultsWin(defaults, headers) ==
    IF TruthyDict(headers) THEN update(headers.v, defaults) ELSE defaults

_merge_headers(defaults, headers) ==
    IF TruthyDict(headers) THEN update(defaults, headers.v) ELSE defaults

\* A request body: None, a str or a dict (its items in insertion order)
NoData == [type |-> "NoneType", s |-> <<>>, d |-> <<>>]
StrData(s) == [type |-> "str", s |-> s, d |-> <<>>]
DictData(d) == [type |-> "dict", s |-> <<>>, d |-> d]

\* json.dumps of a dict of strings: {"k": "v", "k2": "v2"}
Quote == "\""
RECURSIVE DumpItems(_)
DumpItems(items) ==
    IF items = <<>> THEN <<>>
    ELSE <<Quote, items[1][1], Quote, ": ", Quote, items[1][2], Quote>>
         \o (IF Len(items) > 1 THEN <<", ">> ELSE <<>>)
         \o DumpItems(Tail(items))

json_dumps(d) == <<"{">> \o DumpItems(d) \o <<"}">>

\* The "Handle JSON data" step of post and put: the body and headers to send
PrepareBody(data, merged) ==
    IF data.type = "dict"
    THEN [data |-> StrData(json_dumps(data.d)),
          headers |-> setdefault(merged, ContentType, <<"application/json">>)]
    ELSE [data |-> data, headers |-> merged]

(* api_client.py: APIResponseWrapper *)
\* (a variant that counts 300 as a success)
is_successful_Through300(resp) == 200 <= resp.status /\ resp.status <= 300

is_successful(resp) == 200 <= resp.status /\ resp.status < 300
is_client_error(resp) == 400 <= resp.status /\ resp.status < 500
is_server_error(resp) == 500 <= resp.status /\ resp.status < 600

-----------------------------------------------------------------------------
(* The record of the last call: its arguments, the calls it made on the     *)
(* transport (in order) and how it ended.                                     *)

\* A call on the transport.  live: the handle it was made on was there (a
\* request context not yet disposed, a driver not yet stopped).
TransportCall(method, handle, url, headers, data) ==
    [method |-> method, handle |-> handle, url |-> url, headers |-> headers, data |-> data,
     live |-> CASE method = "stop" -> handle \in drivers
                [] method \in {"start", "new_context"} -> TRUE
                [] OTHER -> handle \in contexts]

NoCall ==
    [op |-> "", error |-> "", message |-> <<>>,
     endpoint |-> <<>>, headers |-> None(EmptyDict), data |-> NoData,
     calls |-> <<>>, url |-> <<>>, merged |-> EmptyDict, status |-> 0, result |-> FALSE,
     answer |-> [raised |-> FALSE, status |-> 0]]   \* what the transport answered

-----------------------------------------------------------------------------
(* The initial state: no client yet; the environment and the config file *)
(* are what the test run finds.                                           *)

InitWith(Files, Keys, Statuses) ==
    /\ env \in [API_KEY : Keys]
    /\ fs \in Files
    /\ phase = "new"
    /\ args = [base_url |-> <<>>, headers |-> None(EmptyDict), config_file |-> None("")]
    /\ config = ConfigDefaults
    /\ base_url = <<>>
    /\ default_headers = EmptyDict
    /\ _playwright = 0
    /\ _request_context = 0
    /\ started = 0
    /\ drivers = {}
    /\ contexts = {}
    /\ response \in [status : Statuses]
    /\ last = NoCall

\* client = APIClient(base_url, headers, config_file)
Construct(BaseUrls, HeaderArgs, ConfigFiles) ==
    /\ phase = "new"
    /\ \E b \in BaseUrls, h \in HeaderArgs, f \in ConfigFiles :
         LET r == APIClientInit(b, h, f, fs, env) IN
         /\ args' = [base_url |-> b, headers |-> h, config_file |-> f]
         /\ last' = [NoCall EXCEPT !.op = "__init__", !.error = r.error,
                                   !.message = r.message]
         /\ IF r.error # ""
            THEN /\ phase' = "failed"
                 /\ UNCHANGED <<config, base_url, default_headers,
                                _playwright, _request_context>>
            ELSE /\ phase' = "constructed"
                 /\ config' = r.value.config
                 /\ base_url' = r.value.base_url
                 /\ default_headers' = r.value.default_headers
                 /\ _playwright' = 0
                 /\ _request_context' = 0
    /\ UNCHANGED <<worldVars, started, drivers, contexts, response>>

-----------------------------------------------------------------------------
(* The transport (Playwright), seen from the client.  A driver and the      *)
(* request context made from it carry the same handle: __aenter__ makes at   *)
(* most one context per driver.  Stopping a driver ends its context too.     *)

\* async with client / await client.__aenter__()
AEnter ==
    /\ phase = "constructed"
    /\ started < MaxStarts
    /\ \E startOk \in BOOLEAN, contextOk \in BOOLEAN :
         LET h == started + 1 IN
         IF ~startOk
         THEN \* async_playwright().start() raised
              /\ last' = [NoCall EXCEPT !.op = "__aenter__", !.error = "Error",
                              !.calls = <<TransportCall("start", 0, <<>>, EmptyDict, NoData)>>]
              /\ UNCHANGED sessionVars
         ELSE IF ~contextOk
         THEN \* the driver started, request.new_context() raised
              /\ _playwright' = h
              /\ started' = h
              /\ drivers' = drivers \cup {h}
              /\ last' = [NoCall EXCEPT !.op = "__aenter__", !.error = "Error",
                              !.calls = <<TransportCall("start", h, <<>>, EmptyDict, NoData),
                                          TransportCall("new_context", h, base_url, default_headers, NoData)>>]
              /\ UNCHANGED <<_request_context, contexts>>
         ELSE /\ _playwright' = h
              /\ _request_context' = h
              /\ started' = h
              /\ drivers' = drivers \cup {h}
              /\ contexts' = contexts \cup {h}
              /\ last' = [NoCall EXCEPT !.op = "__aenter__",
                              !.calls = <<TransportCall("start", h, <<>>, EmptyDict, NoData),
                                          TransportCall("new_context", h, base_url, default_headers, NoData)>>]
    /\ UNCHANGED <<worldVars, clientVars, response>>

\* await client.__aexit__(...).  dispose() of a context that is gone, and
\* stop() of a driver that is gone, are the transport's to decide: each
\* either returns or raises.
AExit ==
    /\ phase = "constructed"
    /\ \E disposeOk \in BOOLEAN, stopOk \in BOOLEAN :
         LET disposing == _request_context # 0
             stopping == _playwright # 0
             disposeRaises == disposing /\ _request_context \notin contexts /\ ~disposeOk
             stopRaises == stopping /\ _playwright \notin drivers /\ ~stopOk
             dispose == IF disposing
                        THEN <<TransportCall("dispose", _request_context, <<>>, EmptyDict, NoData)>>
                        ELSE <<>>
             stop == IF stopping /\ ~disposeRaises
                     THEN <<TransportCall("stop", _playwright, <<>>, EmptyDict, NoData)>>
                     ELSE <<>>
             disposed == IF disposing THEN contexts \ {_request_context} ELSE contexts
         IN
         \* a choice that decides nothing is taken one way only
         /\ (disposing /\ _request_context \notin contexts) \/ disposeOk
         /\ (stopping /\ ~disposeRaises /\ _playwright \notin drivers) \/ stopOk
         /\ last' = [NoCall EXCEPT !.op = "__aexit__",
                         !.error = IF disposeRaises \/ stopRaises THEN "Error" ELSE "",
                         !.calls = dispose \o stop]
         /\ IF stopping /\ ~disposeRaises
            THEN /\ drivers' = drivers \ {_playwright}
                 /\ contexts' = disposed \ {_playwright}
            ELSE /\ drivers' = drivers
                 /\ contexts' = disposed
    /\ UNCHANGED <<worldVars, clientVars, response, _playwright, _request_context, started>>

-----------------------------------------------------------------------------
(* The request methods.  Each builds the URL and the headers, then calls    *)
(* self._request_context.<method>(url, ...): on None that is an              *)
(* AttributeError and nothing reaches the transport; on a context the       *)
(* transport answers with a response of some status or raises, and it       *)
(* raises when the context has been disposed.                                *)

\* (a variant that tries once more when the transport raised and
\* retry_count allows it)
Send_Retries(op, endpoint, headers, data, call, Outcomes) ==
    LET made == [NoCall EXCEPT !.op = op, !.endpoint = endpoint, !.headers = headers,
                               !.data = data, !.url = call.url, !.merged = call.headers]
    IN
    IF _request_context = 0
    THEN /\ last' = [made EXCEPT !.error = "AttributeError",
                         !.message = <<"'NoneType' object has no attribute '", op, "'">>]
         /\ UNCHANGED response
    ELSE \E status \in Outcomes, answered \in BOOLEAN :
           IF _request_context \notin contexts \/ ~answered
           THEN /\ last' = [made EXCEPT !.error = "Error",
                                !.calls = IF config.retry_count > 0 THEN <<call, call>> ELSE <<call>>,
                                !.answer = [raised |-> TRUE, status |-> 0]]
                /\ UNCHANGED response
           ELSE /\ last' = [made EXCEPT !.calls = <<call>>, !.status = status,
                                !.answer = [raised |-> FALSE, status |-> status]]
                /\ response' = [status |-> status]

Send(op, endpoint, headers, data, call, Outcomes) ==
    LET made == [NoCall EXCEPT !.op = op, !.endpoint = endpoint, !.headers = headers,
                               !.data = data, !.url = call.url, !.merged = call.headers]
    IN
    IF _request_context = 0
    THEN /\ last' = [made EXCEPT !.error = "AttributeError",
                         !.message = <<"'NoneType' object has no attribute '", op, "'">>]
         /\ UNCHANGED response
    ELSE \E status \in Outcomes, answered \in BOOLEAN :
           IF _request_context \notin contexts \/ ~answered
           THEN /\ last' = [made EXCEPT !.error = "Error", !.calls = <<call>>,
                                !.answer = [raised |-> TRUE, status |-> 0]]
                /\ UNCHANGED response
           ELSE /\ last' = [made EXCEPT !.calls = <<call>>, !.status = status,
                                !.answer = [raised |-> FALSE, status |-> status]]
                /\ response' = [status |-> status]

Get(Endpoints, HeaderArgs, Outcomes) ==
    /\ phase = "constructed"
    /\ \E endpoint \in Endpoints, headers \in HeaderArgs :
         LET url == _build_url(base_url, endpoint)
             merged_headers == _merge_headers(default_headers, headers)
         IN  /\ Send("get", endpoint, headers, NoData,
                     TransportCall("get", _request_context, url, merged_headers, NoData),
                     Outcomes)
             /\ default_headers' = DefaultsAfterMerge(default_headers, merged_headers)
    /\ UNCHANGED <<worldVars, phase, args, config, base_url, sessionVars>>

Post(Endpoints, HeaderArgs, Bodies, Outcomes) ==
    /\ phase = "constructed"
    /\ \E endpoint \in Endpoints, headers \in HeaderArgs, data \in Bodies :
         LET url == _build_url(base_url, endpoint)
             merged_headers == _merge_headers(default_headers, headers)
             body == PrepareBody(data, merged_headers)
         IN  /\ Send("post", endpoint, headers, data,
                     TransportCall("post", _request_context, url, body.headers, body.data),
                     Outcomes)
             /\ default_headers' = DefaultsAfterMerge(default_headers, body.headers)
    /\ UNCHANGED <<worldVars, phase, args, config, base_url, sessionVars>>

Put(Endpoints, HeaderArgs, Bodies, Outcomes) ==
    /\ phase = "constructed"
    /\ \E endpoint \in Endpoints, headers \in HeaderArgs, data \in Bodies :
         LET url == _build_url(base_url, endpoint)
             merged_headers == _merge_headers(default_headers, headers)
             body == PrepareBody(data, merged_headers)
         IN  /\ Send("put", endpoint, headers, data,
                     TransportCall("put", _request_context, url, body.headers, body.data),
                     Outcomes)
             /\ default_headers' = DefaultsAfterMerge(default_headers, body.headers)
    /\ UNCHANGED <<worldVars, phase, args, config, base_url, sessionVars>>

Delete(Endpoints, HeaderArgs, Outcomes) ==
    /\ phase = "constructed"
    /\ \E endpoint \in Endpoints, headers \in HeaderArgs :
         LET url == _build_url(base_url, endpoint)
             merged_headers == _merge_headers(default_headers, headers)
         IN  /\ Send("delete", endpoint, headers, NoData,
                     TransportCall("delete", _request_context, url, merged_headers, NoData),
                     Outcomes)
             /\ default_headers' = DefaultsAfterMerge(default_headers, merged_headers)
    /\ UNCHANGED <<worldVars, phase, args, config, base_url, sessionVars>>

\* Direct calls of the helpers and of the wrapper's predicates
BuildUrl(Endpoints) ==
    /\ phase = "constructed"
    /\ \E endpoint \in Endpoints :
         last' = [NoCall EXCEPT !.op = "_build_url", !.endpoint = endpoint,
                                !.url = _build_url(base_url, endpoint)]
    /\ UNCHANGED <<worldVars, clientVars, sessionVars, response>>

MergeHeaders(HeaderArgs) ==
    /\ phase = "constructed"
    /\ \E headers \in HeaderArgs :
         LET merged == _merge_headers(default_headers, headers) IN
         /\ last' = [NoCall EXCEPT !.op = "_merge_headers", !.headers = headers,
                                   !.merged = merged]
         /\ default_headers' = DefaultsAfterMerge(default_headers, merged)
    /\ UNCHANGED <<worldVars, phase, args, config, base_url, sessionVars, response>>

IsSuccessful ==
    /\ last' = [NoCall EXCEPT !.op = "is_successful", !.status = response.status,
                              !.result = is_successful(response)]
    /\ UNCHANGED <<worldVars, clientVars, sessionVars, response>>

IsClientError ==
    /\ last' = [NoCall EXCEPT !.op = "is_client_error", !.status = response.status,
                              !.result = is_client_error(response)]
    /\ UNCHANGED <<worldVars, clientVars, sessionVars, response>>

IsServerError ==
    /\ last' = [NoCall EXCEPT !.op = "is_server_error", !.status = response.status,
                              !.result = is_server_error(response)]
    /\ UNCHANGED <<worldVars, clientVars, sessionVars, response>>

-----------------------------------------------------------------------------
(* Inputs *)

Text_https_a == <<"h", "t", "t", "p", "s", ":", "/", "/", "a">>      \* https://a
Text_https_f == <<"h", "t", "t", "p", "s", ":", "/", "/", "f">>      \* https://f
Text_http_h == <<"h", "t", "t", "p", ":", "/", "/", "h">>            \* http://h
Text_https_h_x == <<"h", "t", "t", "p", "s", ":", "/", "/", "h", "/", "x">>  \* https://h/x
Text_ftp_h == <<"f", "t", "p", ":", "/", "/", "h">>                  \* ftp://h
Text_ws_h == <<"w", "s", ":", "/", "/", "h">>                        \* ws://h
Text_httpstat == <<"h", "t", "t", "p", "s", "t", "a", "t", "/", "2">> \* httpstat/2
Text_u == <<"u">>                                                    \* u
Text_u_1 == <<"u", "/", "1">>                                        \* u/1
Text_a_colon == <<"a", ":", "u">>                                    \* a:u

Dict1(k, v) == SetItem(EmptyDict, k, <<v>>)
Dict2(k1, v1, k2, v2) == SetItem(Dict1(k1, v1), k2, <<v2>>)

\* with 0..MaxSlashes slashes after (before) a text
WithTrailing(texts) == {t \o Slashes(n) : t \in texts, n \in 0..MaxSlashes}
WithLeading(texts) == {Slashes(n) \o t : t \in texts, n \in 0..MaxSlashes}

ConfigPath == "config.yaml"

MappingFile(keys, url, headers) == File(Loaded(FALSE, "dict", TRUE, keys, url, headers))

\* The specification of the client's life: construction, sessions, requests
SessionFiles ==
    {MappingFile({"base_url", "default_headers"}, Text_https_f,
                 Some(Dict1(Authorization, "file-token"))),
     MappingFile({"base_url", "retry_count"}, Text_https_f, None(EmptyDict))}
SessionKeys == {None("")}
SessionBaseUrls == {Text_https_a \o <<Slash>>}
SessionCtorHeaders == {None(EmptyDict), Some(Dict1("content-type", "text/plain"))}
SessionConfigFiles == {Some(ConfigPath)}
SessionEndpoints == {<<Slash>> \o Text_u}
SessionHeaders == {None(EmptyDict), Some(Dict1("X-Test", "1")), Some(Dict1(ContentType, "text/xml"))}
SessionBodies == {NoData, StrData(<<"raw">>), DictData(<<<<"title", "x">>>>)}
SessionOutcomes == {200, 302, 404, 500}

Init == InitWith(SessionFiles, SessionKeys, {0})

Next ==
    \/ Construct(SessionBaseUrls, SessionCtorHeaders, SessionConfigFiles)
    \/ AEnter
    \/ AExit
    \/ Get(SessionEndpoints, SessionHeaders, SessionOutcomes)
    \/ Post(SessionEndpoints, SessionHeaders, SessionBodies, SessionOutcomes)
    \/ Put(SessionEndpoints, SessionHeaders, SessionBodies, SessionOutcomes)
    \/ Delete(SessionEndpoints, SessionHeaders, SessionOutcomes)

Spec == Init /\ [][Next]_vars

-----------------------------------------------------------------------------
(* URL building: clients whose base URL comes from the constructor or from *)
(* the file, with trailing slashes, and endpoints with leading slashes.     *)

UrlFiles == {MappingFile({"base_url"}, u, None(EmptyDict)) : u \in WithTrailing({Text_https_f})}
UrlBaseUrls == {<<>>} \cup WithTrailing({Text_https_a})
UrlConfigFiles == {None(""), Some(ConfigPath)}
UrlEndpoints ==
    WithLeading({<<>>, Text_u, Text_u_1, Text_a_colon, Text_httpstat,
                 Text_http_h, Text_https_h_x, Text_ftp_h, Text_ws_h})

InitUrl == InitWith(UrlFiles, {None("")}, {0})

NextUrl ==
    \/ Construct(UrlBaseUrls, {None(EmptyDict)}, UrlConfigFiles)
    \/ BuildUrl(UrlEndpoints)

SpecUrl == InitUrl /\ [][NextUrl]_vars

-----------------------------------------------------------------------------
(* Header merging: default headers from the built-in entry, the API key    *)
(* and the constructor; per-request headers that add, override or are       *)
(* absent.                                                                   *)

HeadersKeys == {None(""), Some("k1")}
HeadersCtorHeaders ==
    {None(EmptyDict), Some(Dict1("X-Test", "1")), Some(Dict1(UserAgent, "ctor-agent")),
     Some(Dict2("Accept", "text/html", Authorization, "ctor-token")),
     Some(Dict2("X-Test", "1", "Accept", "text/html"))}
HeadersPerRequest ==
    {None(EmptyDict), Some(EmptyDict), Some(Dict1("X-Test", "2")), Some(Dict1("X-Test", "1")),
     Some(Dict1(UserAgent, "request-agent")), Some(Dict1(Authorization, "request-token")),
     Some(Dict1("Accept", "text/xml")), Some(Dict1("X-Trace", "t")),
     Some(Dict2("X-Test", "2", "Accept", "text/xml")),
     Some(Dict2(UserAgent, "request-agent", "X-Trace", "t")),
     Some(Dict2(Authorization, "request-token", "X-Test", "2"))}

InitHeaders == InitWith({MissingFile}, HeadersKeys, {0})

NextHeaders ==
    \/ Construct({<<>>}, HeadersCtorHeaders, {None("")})
    \/ MergeHeaders(HeadersPerRequest)

SpecHeaders == InitHeaders /\ [][NextHeaders]_vars

-----------------------------------------------------------------------------
(* Construction: every kind of config file, the API key unset, empty or    *)
(* set, and constructor arguments that agree or disagree with the file.     *)

ConfigFileHeaders ==
    {Some(Dict1(Authorization, "file-token")), Some(Dict1(UserAgent, "file-agent")),
     Some(Dict2("Accept", "text/html", Authorization, "file-token"))}
ConfigFiles ==
    {MissingFile,
     File(Loaded(TRUE, "NoneType", FALSE, {}, <<>>, None(EmptyDict))),   \* malformed YAML
     File(Loaded(FALSE, "NoneType", FALSE, {}, <<>>, None(EmptyDict))),  \* an empty file
     File(Loaded(FALSE, "list", TRUE, {}, <<>>, None(EmptyDict))),       \* - a
     File(Loaded(FALSE, "list", FALSE, {}, <<>>, None(EmptyDict))),      \* []
     File(Loaded(FALSE, "str", TRUE, {}, <<>>, None(EmptyDict))),        \* hello
     File(Loaded(FALSE, "int", FALSE, {}, <<>>, None(EmptyDict))),       \* 0
     File(Loaded(FALSE, "dict", FALSE, {}, <<>>, None(EmptyDict))),      \* {}
     MappingFile({"timeout"}, <<>>, None(EmptyDict)),
     MappingFile({"default_headers"}, <<>>, None(EmptyDict)),            \* default_headers:
     [MappingFile({"log_level"}, <<>>, None(EmptyDict))
         EXCEPT !.loaded.log_level = "verbose"]}                         \* log_level: verbose
    \cup {MappingFile({"base_url"}, u, None(EmptyDict)) : u \in WithTrailing({Text_https_f})}
    \cup {MappingFile({"default_headers"}, <<>>, h) : h \in ConfigFileHeaders}
    \cup {MappingFile({"base_url", "default_headers", "log_level"}, Text_https_f, h) :
            h \in ConfigFileHeaders}
ConfigKeys == {None(""), Some(""), Some("k1")}
ConfigBaseUrls == {<<>>, <<Slash>>} \cup WithTrailing({Text_https_a, Text_https_f})
ConfigCtorHeaders ==
    {None(EmptyDict), Some(EmptyDict), Some(Dict1("X-Test", "1")),
     Some(Dict1(Authorization, "ctor-token")),
     Some(Dict2(UserAgent, "ctor-agent", "Accept", "text/xml"))}
ConfigConfigFiles == {None(""), Some(""), Some(ConfigPath)}

InitConfig == InitWith(ConfigFiles, ConfigKeys, {0})

NextConfig == Construct(ConfigBaseUrls, ConfigCtorHeaders, ConfigConfigFiles)

SpecConfig == InitConfig /\ [][NextConfig]_vars

-----------------------------------------------------------------------------
(* Status classification: a wrapper around a response of any status *)

InitStatus == InitWith({MissingFile}, {None("")}, 0..MaxStatus)

NextStatus ==
    \/ IsSuccessful
    \/ IsClientError
    \/ IsServerError

SpecStatus == InitStatus /\ [][NextStatus]_vars

-----------------------------------------------------------------------------
(* Vocabulary of the claims *)

Requests == {"get", "post", "put", "delete"}

\* The client holds a request context the transport has not disposed
SessionActive == _request_context # 0 /\ _request_context \in contexts

\* A header name without its letter case (the names the inputs use)
LowerName(name) ==
    CASE name = "Content-Type" -> "content-type"
      [] name = "User-Agent" -> "user-agent"
      [] name = "Authorization" -> "authorization"
      [] name = "X-Test" -> "x-test"
      [] OTHER -> name

ContentTypeKeys(d) == {k \in DOMAIN d : LowerName(k) = "content-type"}

-----------------------------------------------------------------------------
(* C1: a request made while no session is active (before the first start,  *)
(* or after a stop) fails and issues no transport call.                     *)
C1_NoRequestOutsideSession ==
    (last.op \in Requests /\ ~SessionActive) =>
        (last.error # "" /\ last.calls = <<>>)

(* C2: a client owns at most one live transport session at any time, and   *)
(* once stop has run no driver or request context acquired by a start is    *)
(* left unreleased.                                                          *)
C2_NoLeakedSession ==
    /\ Cardinality(drivers) <= 1
    /\ Cardinality(contexts) <= 1
    /\ (last.op = "__aexit__" /\ last.error = "") => (drivers = {} /\ contexts = {})

(* C8: post and put with a mapping body send its JSON serialization and     *)
(* exactly one Content-Type header, whatever the letter case of the name:   *)
(* application/json when neither the default nor the per-request headers     *)
(* gave one, else the value the caller gave; a string or absent body adds    *)
(* no Content-Type.                                                          *)
C8_OneContentType ==
    (last.op \in {"post", "put"} /\ last.calls # <<>>) =>
        LET sent == last.calls[1]
            supplied == _merge_headers(default_headers, last.headers)
        IN  IF last.data.type = "dict"
            THEN /\ sent.data = StrData(json_dumps(last.data.d))
                 /\ Cardinality(ContentTypeKeys(sent.headers)) = 1
                 /\ \A k \in ContentTypeKeys(sent.headers) :
                      IF ContentTypeKeys(supplied) = {}
                      THEN sent.headers[k] = <<"application/json">>
                      ELSE k \in DOMAIN supplied /\ sent.headers[k] = supplied[k]
            ELSE /\ sent.data = last.data
                 /\ ContentTypeKeys(sent.headers) = ContentTypeKeys(supplied)

-----------------------------------------------------------------------------
(* More vocabulary: URLs and configuration sources *)

Letters == {"a", "f", "h", "p", "s", "t", "u", "w", "x"}

\* The text begins with a URL scheme: letters, then ://
HasScheme(e) ==
    \E n \in 1..Len(e) :
        /\ \A i \in 1..n : e[i] \in Letters
        /\ Len(e) >= n + 3
        /\ SubSeq(e, n + 1, n + 3) = <<":", Slash, Slash>>

\* The base URL the client was given: the constructor's, else the loaded one
GivenBaseUrl == IF args.base_url # <<>> THEN args.base_url ELSE config.base_url

\* The constructor was given a config file path
FileGiven == ~args.config_file.none /\ args.config_file.v # ""

\* The file parsed to a mapping, and it sets base_url
FileSetsBaseUrl ==
    /\ FileGiven /\ fs.exists /\ ~fs.loaded.raises
    /\ fs.loaded.type = "dict" /\ fs.loaded.truthy
    /\ "base_url" \in fs.loaded.keys

\* The header sources, each a dict
BuiltinHeaders == ConfigDefaults.default_headers
FileHeaders ==
    IF FileGiven /\ fs.exists /\ ~fs.loaded.raises /\ fs.loaded.type = "dict"
       /\ fs.loaded.truthy /\ "default_headers" \in fs.loaded.keys
       /\ ~fs.loaded.default_headers.none
    THEN fs.loaded.default_headers.v
    ELSE EmptyDict
CtorHeaders == IF args.headers.none THEN EmptyDict ELSE args.headers.v

\* Key by key: constructor, else the API key (for Authorization, when keyOn),
\* else the file, else the built-in entry
HeadersInOrder(keyOn) ==
    LET keyed == IF keyOn THEN {Authorization} ELSE {}
        names == DOMAIN BuiltinHeaders \cup DOMAIN FileHeaders \cup keyed \cup DOMAIN CtorHeaders
    IN  [k \in names |->
            IF k \in DOMAIN CtorHeaders THEN CtorHeaders[k]
            ELSE IF k \in keyed THEN <<"Bearer ", env.API_KEY.v>>
            ELSE IF k \in DOMAIN FileHeaders THEN FileHeaders[k]
            ELSE BuiltinHeaders[k]]

-----------------------------------------------------------------------------
(* C3: for an endpoint that does not begin with a URL scheme, _build_url    *)
(* returns the given base URL without trailing slashes, one '/', and the    *)
(* endpoint without leading slashes; just the endpoint when there is no     *)
(* base URL.                                                                 *)
C3_JoinWithOneSlash ==
    (last.op = "_build_url" /\ ~HasScheme(last.endpoint)) =>
        LET base == rstrip(GivenBaseUrl, Slash)
            path == lstrip(last.endpoint, Slash)
        IN  last.url = IF base = <<>> THEN path ELSE base \o <<Slash>> \o path

(* C4: an endpoint that begins with a URL scheme, whichever it is, is       *)
(* returned unchanged by _build_url.                                         *)
C4_AbsoluteUnchanged ==
    (last.op = "_build_url" /\ HasScheme(last.endpoint)) => last.url = last.endpoint

(* C5: _merge_headers is right-biased: the result has the keys of the       *)
(* defaults and of the per-request headers, the per-request value where     *)
(* there is one and the default value elsewhere; without per-request        *)
(* headers it is the defaults.                                               *)
C5_MergeRightBiased ==
    (last.op = "_merge_headers") =>
        LET D == default_headers
            R == IF last.headers.none THEN EmptyDict ELSE last.headers.v
            merged == last.merged
        IN  /\ DOMAIN merged = DOMAIN D \cup DOMAIN R
            /\ \A k \in DOMAIN R : merged[k] = R[k]
            /\ \A k \in DOMAIN D \ DOMAIN R : merged[k] = D[k]
            /\ (DOMAIN R = {}) => merged = D

C5_Witness ==
    /\ last.op = "_merge_headers"
    /\ ~last.headers.none
    /\ \E k \in DOMAIN default_headers \cap DOMAIN last.headers.v :
          /\ default_headers[k] # last.headers.v[k]
          /\ last.merged[k] = last.headers.v[k]
    /\ DOMAIN last.headers.v \ DOMAIN default_headers # {}
    /\ Cardinality(DOMAIN default_headers \ DOMAIN last.headers.v) >= 2

(* C6, as claimed: when the defaults, the file and the constructor set      *)
(* base_url differently, the client's base URL is the constructor's value   *)
(* without trailing slashes, also when that value is empty.                  *)
C6_CtorBaseUrlAlwaysWins ==
    (phase = "constructed" /\ FileSetsBaseUrl /\ fs.loaded.base_url # ConfigDefaults.base_url
        /\ args.base_url # fs.loaded.base_url) =>
        base_url = rstrip(args.base_url, Slash)

(* C6, amended: under the same conditions the client's base URL is the      *)
(* constructor's value without trailing slashes whenever that value is not  *)
(* empty; an empty constructor value counts as not given, and the base URL  *)
(* is then the file's value without trailing slashes.                        *)
C6_CtorBaseUrlWins ==
    (phase = "constructed" /\ FileSetsBaseUrl /\ fs.loaded.base_url # ConfigDefaults.base_url
        /\ args.base_url # fs.loaded.base_url) =>
        base_url = IF args.base_url # <<>>
                   THEN rstrip(args.base_url, Slash)
                   ELSE rstrip(fs.loaded.base_url, Slash)

C6_Witness ==
    /\ phase = "constructed" /\ FileSetsBaseUrl
    /\ fs.loaded.base_url = Text_https_f \o <<Slash>>
    /\ args.base_url = Text_https_a \o <<Slash, Slash>>
    /\ base_url = Text_https_a

(* C7, as claimed: the default headers are resolved key by key in the order *)
(* built-in < file < API_KEY < constructor, where an API_KEY that is set,   *)
(* whatever its value, makes Authorization 'Bearer <API_KEY>'.               *)
C7_HeaderOrderAnyKey ==
    (phase = "constructed") => default_headers = HeadersInOrder(~env.API_KEY.none)

(* C7, amended: the same order, where an API_KEY that is set and not empty  *)
(* makes Authorization 'Bearer <API_KEY>'; an empty API_KEY counts as not   *)
(* set.                                                                      *)
C7_HeaderOrder ==
    (phase = "constructed") =>
        default_headers = HeadersInOrder(~env.API_KEY.none /\ env.API_KEY.v # "")

C7_Witness ==
    /\ phase = "constructed"
    /\ ~env.API_KEY.none /\ env.API_KEY.v # ""
    /\ Authorization \in DOMAIN FileHeaders
    /\ "Accept" \in DOMAIN FileHeaders
    /\ UserAgent \in DOMAIN CtorHeaders
    /\ Authorization \notin DOMAIN CtorHeaders
    /\ default_headers[Authorization] = <<"Bearer ", env.API_KEY.v>>
    /\ default_headers[UserAgent] = CtorHeaders[UserAgent]
    /\ default_headers["Accept"] = CtorHeaders["Accept"]

(* C9: constructing with a config file path fails with a ValueError whose   *)
(* message contains the path whenever the file does not exist, is malformed *)
(* YAML, or is YAML whose top level is a list or a scalar; no client is     *)
(* produced and no other error escapes.                                      *)
C9_BadFileIsValueError ==
    (last.op = "__init__" /\ FileGiven
        /\ (~fs.exists \/ fs.loaded.raises \/ fs.loaded.type \in {"list", "str", "int"})) =>
        /\ phase = "failed"
        /\ last.error = "ValueError"
        /\ \E i \in 1..Len(last.message) : last.message[i] = args.config_file.v

(* C10: is_successful is true exactly for 200..299, is_client_error for     *)
(* 400..499, is_server_error for 500..599; no status has two of them true.  *)
C10_StatusClasses ==
    /\ (last.op = "is_successful") => (last.result <=> last.status \in 200..299)
    /\ (last.op = "is_client_error") => (last.result <=> last.status \in 400..499)
    /\ (last.op = "is_server_error") => (last.result <=> last.status \in 500..599)
    /\ last.op \in {"is_successful", "is_client_error", "is_server_error"} =>
          /\ last.status = response.status
          /\ ~(is_successful(response) /\ is_client_error(response))
          /\ ~(is_successful(response) /\ is_server_error(response))
          /\ ~(is_client_error(response) /\ is_server_error(response))
          /\ (response.status \notin (200..299) \cup (400..599)) =>
                ~(is_successful(response) \/ is_client_error(response)
                    \/ is_server_error(response))

C10_Witness ==
    /\ last.op = "is_successful"
    /\ response.status = 300
    /\ last.result = FALSE

(* C11: in an active session every get, post, put and delete makes exactly *)
(* one transport call, whatever retry_count is: a response of any status is *)
(* returned wrapped, carrying that status, and not raised; an error of the  *)
(* transport reaches the caller, with no second attempt.                    *)
C11_OneTransportCall ==
    (last.op \in Requests /\ SessionActive) =>
        /\ Len(last.calls) = 1
        /\ last.calls[1].method = last.op
        /\ last.calls[1].handle = _request_context
        /\ IF last.answer.raised
           THEN last.error = "Error"
           ELSE /\ last.error = ""
                /\ last.status = last.answer.status
                /\ response.status = last.answer.status

C11_Witness ==
    /\ last.op = "post" /\ SessionActive
    /\ config.retry_count = 5
    /\ last.answer.raised
    /\ last.error = "Error"
    /\ Len(last.calls) = 1

(* C12: a stop that follows a stop, and a stop of a client never started,  *)
(* makes no dispose or stop call on the transport, raises nothing and       *)
(* leaves the client and its session as they were.                           *)
C12_DoubleStopNoOp ==
    [][(last'.op = "__aexit__"
          /\ (last.op = "__aexit__" \/ (_playwright = 0 /\ _request_context = 0)))
        => (/\ last'.calls = <<>>
            /\ last'.error = ""
            /\ UNCHANGED <<clientVars, sessionVars>>)]_vars

(* C13: whatever requests were made, with whatever per-request headers and *)
(* bodies, the client's default headers are what the constructor resolved:  *)
(* no per-request header and no injected Content-Type stays in them; and    *)
(* the Config's own default_headers are what the Config resolved, without   *)
(* the constructor's header overrides.                                      *)
C13_DefaultHeadersKept ==
    (phase = "constructed") =>
        LET loaded == Config(args.config_file, fs, env).value IN
        /\ config.default_headers = loaded.default_headers
        /\ default_headers = ResolveHeaders(args.headers, loaded)

C13_Witness ==
    /\ phase = "constructed"
    /\ last.op = "post" /\ last.calls # <<>>
    /\ last.data.type = "dict"
    /\ TruthyDict(last.headers)
    /\ DOMAIN last.calls[1].headers \ DOMAIN default_headers = {ContentType, "X-Test"}
    /\ TruthyDict(args.headers)
    /\ config.default_headers # default_headers

====
